---------------------------- MODULE Spec2Model ----------------------------
(***************************************************************************)
(* Model of the real-time video transport of meta-face-py:                 *)
(*   - H264VideoProcessor        (src/app/video/h264.py, src/app/media/h264.py) *)
(*   - WebSocketVideoClient      (src/app/network/websocket.py)            *)
(*   - WebRTCClient.recv_frames  (src/app/network/webrtc.py)               *)
(*                                                                         *)
(* The specifications share the variables:                                    *)
(*   Spec       the WebSocketVideoClient: _run_async, its three tasks, the  *)
(*              worker thread that decodes, stop() and the environment;    *)
(*   FairSpec   Spec with the fairness the event loop and the worker pool  *)
(*              give;                                                      *)
(*   SendFairSpec  Spec with the sender scheduled fairly;                  *)
(*   WireSpec   Spec with the packets written to the connection recorded;  *)
(*   CodecSpec  the H264VideoProcessor called method by method;            *)
(*   StampSpec  CodecSpec with the timestamps of encode_frame recorded;    *)
(*   SinkSpec   _recv_task's decoded frames and the frame callbacks;       *)
(*   QueueSpec  the recv_frames queue of WebRTCClient.                     *)
(***************************************************************************)
EXTENDS Integers, Sequences, FiniteSets, TLC

(* ------------------------------ bounds ---------------------------------- *)
\* max_retries is drawn from -1..MaxRetries
MaxRetries == 1
\* the environment injects failures only while attempt < MaxFaults
MaxFaults == 1
\* frames the frame source yields before it is exhausted
MaxFrames == 2
\* the max_queue_size the client is constructed with
MaxQueueSize == 1
\* cap of consecutive_decode_errors (too-small packets raise it without limit)
MaxErrors == 11
\* cap of H264VideoProcessor.frame_count
MaxFrameCount == 0
\* packet lengths given to decode_frame are 0..MaxPacketLen
MaxPacketLen == 5
\* frames the remote track delivers to WebRTCClient
MaxRecv == 13
\* frames one processor decodes when it is called directly
MaxDecoded == 2
\* packets the encoder returns for one frame
MaxPackets == 2
\* frames the receiver of one attempt gets decoded
MaxSinkFrames == 3
\* frames one decode_work returns
MaxBatch == 2
\* encode_frame calls of one encoder whose timestamps are recorded
MaxStamps == 2

(* ------------------------- program constants ---------------------------- *)
\* H264VideoProcessor.max_consecutive_errors
max_consecutive_errors == 10
\* "Validate minimum packet size"
MinPacketSize == 4
\* asyncio.Queue(maxsize=10) of WebRTCClient
RecvCapacity == 10
\* num_workers of WebSocketVideoClient, the size of the worker pool
num_workers == 4

VARIABLES
    \* WebSocketVideoClient
    max_retries,         \* self.max_retries
    attempt,             \* local of _run_async
    running,             \* self._running
    mpc,                 \* where _run_async is
    exitKind,            \* how the try statement is being left: loop, return, raise, cancel
    exception_occurred,  \* local of _run_async
    conn,                \* the websocket: closed, open, dropped (closed by the peer)
    prod, send, recv,    \* where the three tasks are
    queue,               \* frame_queue; 0 is the None stop signal
    prodFrame,           \* the frame the producer holds
    sendFrame,           \* the frame the sender holds, 0 once it is done with it
    packets,             \* how many packets encode_work returned for it
    codec,               \* self.processor
    decJob,              \* decode_work of the running receiver in the worker pool
    staleJob,            \* decode_work whose receiver was cancelled while it ran
    nextFrame,           \* frames the generator has yielded
    srcState,            \* the generator: live, exhausted, raised
    \* observations
    connect_calls,       \* websockets.connect calls of this start()
    connOk,              \* some connect succeeded
    stopCalled,          \* stop() was called
    stopMid,             \* stop() was called while the three tasks were running
    graceDone,           \* the wait for the cancelled tasks has ended in this attempt
    cancelled,           \* the _run_async task was cancelled from outside
    unitErr,             \* the errors that ended units of this attempt
    probe,               \* whether the packets written and the timestamps are recorded
    wire,                \* the packets written to the connection in this attempt
    \* _recv_task and the callbacks it hands to the worker pool
    rpc,                 \* where the receiver is: none, recv, bind, count
    decoded_frames,      \* frames of the last decode_work not yet iterated
    decoded,             \* frames decode_work has returned so far; frame k is the k-th
    f,                   \* loop variable of _recv_task, read by callback_work
    frame_count,         \* local of _recv_task, read by callback_work
    jobs,                \* callback_work items waiting in the pool, oldest first
    holding,             \* arguments evaluated by worker threads about to call
    delivered,           \* the frame_callback invocations, in the order they start
    \* H264VideoProcessor called directly
    call,                \* the last call and what it returned
    session,             \* the run of corrupt units fed since init_decoder
    stamps,              \* the pts encode_frame has given to the frames of this encoder
    \* WebRTCClient
    recv_frames,         \* self.recv_frames
    received,            \* frames the track has delivered
    reads,               \* frames display_loop has taken
    track                \* on_track's loop: live, ended

vars == << max_retries, attempt, running, mpc, exitKind, exception_occurred, conn,
           prod, send, recv, queue, prodFrame, codec, decJob, staleJob, nextFrame,
           srcState, connect_calls, connOk, stopCalled, stopMid, graceDone,
           cancelled, unitErr, sendFrame, packets, probe, wire, rpc, decoded_frames,
           decoded, f, frame_count, jobs, holding, delivered, call, session,
           stamps,
           recv_frames, received, reads, track >>

wsVars == << max_retries, attempt, running, mpc, exitKind, exception_occurred, conn,
             prod, send, recv, queue, prodFrame, decJob, staleJob, nextFrame,
             srcState, connect_calls, connOk, stopCalled, stopMid, graceDone,
             cancelled, unitErr, sendFrame, packets, probe, wire >>

rtcVars == << recv_frames, received, reads, track >>

sinkVars == << rpc, decoded_frames, decoded, f, frame_count, jobs, holding, delivered >>

(* ======================= H264VideoProcessor ============================= *)
\* __init__
NewProcessor ==
    [ decoder |-> "absent", encoder |-> "absent", encoder_initialized |-> FALSE,
      frame_count |-> 0, consecutive_decode_errors |-> 0 ]

\* cleanup_decoder: flush, then self.decoder = None
CleanupDecoder(c) == [c EXCEPT !.decoder = "absent"]

\* a cleanup_encoder that releases the encoder and leaves the flag alone
CleanupEncoderKeepsFlag(c) ==
    IF c.encoder # "absent" THEN [c EXCEPT !.encoder = "absent"] ELSE c

\* cleanup_encoder: only when an encoder is held
CleanupEncoder(c) ==
    IF c.encoder # "absent"
    THEN [c EXCEPT !.encoder = "absent", !.encoder_initialized = FALSE]
    ELSE c

\* a cleanup without "self.frame_count = 0"
CleanupKeepsFrameCount(c) == CleanupEncoder(CleanupDecoder(c))

\* cleanup
Cleanup(c) == [CleanupEncoder(CleanupDecoder(c)) EXCEPT !.frame_count = 0]

\* init_decoder; ok is whether av.CodecContext.create succeeds.
\* Result: the processor and whether the call raised.
InitDecoder(c, ok) ==
    LET c1 == IF c.decoder # "absent" THEN CleanupDecoder(c) ELSE c
    IN IF ok
       THEN [ codec |-> [c1 EXCEPT !.decoder = "fresh", !.consecutive_decode_errors = 0],
              raised |-> FALSE ]
       ELSE [ codec |-> c1, raised |-> TRUE ]

\* init_encoder; how is "ok", "create" (create raises) or "config" (a setter raises)
InitEncoder(c, how) ==
    LET c1 == IF c.encoder # "absent" THEN CleanupEncoder(c) ELSE c
    IN CASE how = "ok" ->
              [ codec |-> [c1 EXCEPT !.encoder = "present", !.encoder_initialized = TRUE],
                raised |-> FALSE ]
         [] how = "create" -> [ codec |-> c1, raised |-> TRUE ]
         [] OTHER -> [ codec |-> [c1 EXCEPT !.encoder = "present"], raised |-> TRUE ]

EncoderHows == {"ok", "create", "config"}

IncErrors(c) == [c EXCEPT !.consecutive_decode_errors = @ + 1]

\* a decode_frame without the test for an empty packet
DecodePreCountsEmpty(c, len) ==
    IF c.decoder = "absent" THEN [ codec |-> c, ret |-> TRUE ]
    ELSE IF len < MinPacketSize THEN [ codec |-> IncErrors(c), ret |-> TRUE ]
    ELSE [ codec |-> c, ret |-> FALSE ]

\* decode_frame up to the call of self.decoder.decode: ret says the method
\* has returned (an empty list)
DecodePre(c, len) ==
    IF len = 0 THEN [ codec |-> c, ret |-> TRUE ]
    ELSE IF c.decoder = "absent" THEN [ codec |-> c, ret |-> TRUE ]
    ELSE IF len < MinPacketSize THEN [ codec |-> IncErrors(c), ret |-> TRUE ]
    ELSE [ codec |-> c, ret |-> FALSE ]

DecodeOutcomes == {"ok", "averror", "attrerror"}

\* a decode_frame whose outer "except Exception" is missing: what is not an
\* av.AVError of the decoder leaves the method
DecodePostUnguarded(c, out, n, reinit) ==
    CASE out = "ok" ->
           [ codec |-> [c EXCEPT !.consecutive_decode_errors = 0,
                                 !.decoder = IF @ = "absent" THEN @ ELSE "used",
                                 !.frame_count = @ + n],
             frames |-> n, reinits |-> 0, raised |-> FALSE ]
      [] out = "averror" ->
           LET c1 == IncErrors(c)
           IN IF c1.consecutive_decode_errors >= max_consecutive_errors
              THEN LET r == InitDecoder(c1, reinit)
                   IN [ codec |-> r.codec, frames |-> 0, reinits |-> 1,
                        raised |-> FALSE ]
              ELSE [ codec |-> [c1 EXCEPT !.decoder = IF @ = "absent" THEN @ ELSE "used"],
                     frames |-> 0, reinits |-> 0, raised |-> FALSE ]
      [] OTHER -> [ codec |-> c, frames |-> 0, reinits |-> 0, raised |-> TRUE ]

\* a decode_frame that resets the error counter only when a frame comes out
DecodePostResetsOnFrames(c, out, n, reinit) ==
    CASE out = "ok" ->
           [ codec |-> [c EXCEPT !.consecutive_decode_errors = IF n > 0 THEN 0 ELSE @,
                                 !.decoder = IF @ = "absent" THEN @ ELSE "used",
                                 !.frame_count = @ + n],
             frames |-> n, reinits |-> 0, raised |-> FALSE ]
      [] out = "averror" ->
           LET c1 == IncErrors(c)
           IN IF c1.consecutive_decode_errors >= max_consecutive_errors
              THEN LET r == InitDecoder(c1, reinit)
                   IN [ codec |-> r.codec, frames |-> 0, reinits |-> 1,
                        raised |-> FALSE ]
              ELSE [ codec |-> [c1 EXCEPT !.decoder = IF @ = "absent" THEN @ ELSE "used"],
                     frames |-> 0, reinits |-> 0, raised |-> FALSE ]
      [] OTHER -> [ codec |-> IncErrors(c), frames |-> 0, reinits |-> 0,
                    raised |-> FALSE ]

\* decode_frame from the return of self.decoder.decode on.
\*   out      ok: the decoder accepted the packet; averror: it raised av.AVError;
\*            attrerror: another exception in the try block (av.Packet, or
\*            self.decoder set to None by another thread)
\*   n        frames appended to the result (frames whose conversion fails or
\*            whose dimensions are not positive are skipped)
\*   reinit   whether init_decoder succeeds if it is called
\* Result: the processor, the number of frames returned, the calls of
\* init_decoder made, and whether an exception left the method.
DecodePost(c, out, n, reinit) ==
    CASE out = "ok" ->
           [ codec |-> [c EXCEPT !.consecutive_decode_errors = 0,
                                 !.decoder = IF @ = "absent" THEN @ ELSE "used",
                                 !.frame_count = @ + n],
             frames |-> n, reinits |-> 0, raised |-> FALSE ]
      [] out = "averror" ->
           LET c1 == IncErrors(c)
           IN IF c1.consecutive_decode_errors >= max_consecutive_errors
              THEN LET r == InitDecoder(c1, reinit)
                   IN [ codec |-> r.codec, frames |-> 0, reinits |-> 1,
                        raised |-> FALSE ]
              ELSE [ codec |-> [c1 EXCEPT !.decoder = IF @ = "absent" THEN @ ELSE "used"],
                     frames |-> 0, reinits |-> 0, raised |-> FALSE ]
      [] OTHER -> [ codec |-> IncErrors(c), frames |-> 0, reinits |-> 0,
                    raised |-> FALSE ]

\* decode_frame as one call. The processor, the frames returned, the calls of
\* init_decoder made, raised.
DecodeFrame(c, len, out, n, reinit) ==
    LET pre == DecodePre(c, len)
    IN IF pre.ret
       THEN [ codec |-> pre.codec, frames |-> 0, reinits |-> 0, raised |-> FALSE ]
       ELSE LET post == DecodePost(pre.codec, out, n, reinit)
            IN [ codec |-> post.codec, frames |-> post.frames,
                 reinits |-> post.reinits, raised |-> post.raised ]

\* the test "self.encoder is not None and self.encoder_initialized"
EncoderReady(c) == c.encoder # "absent" /\ c.encoder_initialized

\* encode_frame: the packets it returns when the encoder would emit n
EncodeFrame(c, n) ==
    IF c.encoder = "absent" \/ ~c.encoder_initialized THEN 0 ELSE n

\* flush_encoder: the packets it returns when the encoder would emit n
FlushEncoder(c, n) == IF EncoderReady(c) THEN n ELSE 0

(* ======================= WebSocketVideoClient =========================== *)
Done == {"done_ok", "done_exc", "done_cancelled"}
Exited == {"returned", "raised", "cancelled"}
Full(q) == Len(q) >= MaxQueueSize

\* variables no step of the client changes
outside == << max_retries, probe, call, session, stamps, recv_frames, received, reads, track,
             sinkVars >>

\* a loop condition that allows one attempt more
RetryAllowedInclusive(r, a) == r = -1 \/ a <= r

\* the loop condition of _run_async, also used after a failure
RetryAllowed(r, a) == r = -1 \/ a < r

\* a retry test that forgets the unlimited setting
RetryOnlyWhileBelow(r, a) == a < r

\* if self.max_retries == -1 or attempt < self.max_retries, after a failure
RetryAfterFailure(r, a) == r = -1 \/ a < r

\* an inspection that looks at the producer only
ProducerFailed(p, s, r) == p = "done_exc"

\* "Check for exceptions in completed tasks": a task that is done and did not
\* end normally sets exception_occurred
ExceptionOccurred(p, s, r) == "done_exc" \in {p, s, r}

\* "while self._running" of the three tasks
ProdAtLoop(r) == IF r THEN "next" ELSE "put_none"
SendAtLoop(r) == IF r THEN "get" ELSE "done_ok"
RecvAtLoop(r) == IF r THEN "recv" ELSE "done_ok"

\* a cancel that the task does not notice
CancelIgnored(t) == t

\* a task that is still running is cancelled: the sender and the receiver end
\* with CancelledError at the await they are at
CancelTask(t) == IF t \in Done \cup {"none"} THEN t ELSE "done_cancelled"

\* the producer catches CancelledError and awaits frame_queue.put(None);
\* a second cancellation ends that await
CancelProducer(p) ==
    IF p \in Done \cup {"none"} THEN p
    ELSE IF p = "cancel_put" THEN "done_cancelled"
    ELSE "cancel_put"

\* the future of run_in_executor is cancelled with the receiver: the result of
\* decode_work is dropped, but a decode_work that is running runs on in its
\* thread
StaleAfterCancel(r, j, s) == IF r = "decode" /\ j = "in_call" THEN "in_call" ELSE s
\* at most one abandoned decode_work is followed at a time
CanCancelRecv == ~(recv = "decode" /\ decJob = "in_call" /\ staleJob = "in_call")

\* a reset that releases the decoder only
ResetKeepsEncoder(c) == CleanupDecoder(c)

\* "Reset codec state" at the start of an attempt, and "Cleanup codecs"
ResetCodec(c) == CleanupDecoder(CleanupEncoder(c))

\* the environment may still make something fail
MayFail == attempt < MaxFaults

\* the except Exception clause of _run_async
Except ==
    /\ running' = FALSE
    /\ attempt' = attempt + 1
    /\ IF RetryAfterFailure(max_retries, attempt + 1)
       THEN mpc' = "sleep" /\ exitKind' = "loop"
       ELSE mpc' = "finally" /\ exitKind' = "raise"

\* while self.max_retries == -1 or attempt < self.max_retries: the next
\* attempt starts and websockets.connect is called, or the function ends
MainLoop ==
    /\ mpc = "loop"
    /\ IF RetryAllowed(max_retries, attempt)
       THEN /\ running' = TRUE
            /\ prod' = "none" /\ send' = "none" /\ recv' = "none"
            /\ mpc' = "connect"
            /\ connect_calls' = connect_calls + 1
            /\ unitErr' = {} /\ stopMid' = FALSE /\ graceDone' = FALSE
       ELSE /\ mpc' = "returned"
            /\ UNCHANGED << running, prod, send, recv, connect_calls, unitErr,
                            stopMid, graceDone >>
    /\ UNCHANGED << attempt, exitKind, exception_occurred, conn, queue, prodFrame,
                    codec, decJob, staleJob, nextFrame, srcState, connOk, stopCalled,
                    cancelled, outside, sendFrame, packets, wire >>

\* websockets.connect succeeds
MainConnectOk ==
    /\ mpc = "connect"
    /\ conn' = "open" /\ connOk' = TRUE /\ mpc' = "handshake"
    /\ UNCHANGED << attempt, running, exitKind, exception_occurred, prod, send, recv,
                    queue, prodFrame, codec, decJob, staleJob, nextFrame, srcState,
                    connect_calls, stopCalled, stopMid, graceDone, cancelled, unitErr,
                    outside, sendFrame, packets, wire >>

\* websockets.connect raises
MainConnectFail ==
    /\ mpc = "connect"
    /\ MayFail
    /\ Except
    /\ UNCHANGED << exception_occurred, conn, prod, send, recv, queue, prodFrame,
                    codec, decJob, staleJob, nextFrame, srcState, connect_calls,
                    connOk, stopCalled, stopMid, graceDone, cancelled, unitErr,
                    outside, sendFrame, packets, wire >>

\* ws.send(jwt_token) and ws.send(photo), then the codec reset, the queue and
\* the three tasks; a send on a dropped connection or init_decoder may raise
MainHandshake ==
    /\ mpc = "handshake"
    /\ \/ /\ conn = "open"
          /\ codec' = InitDecoder(ResetCodec(codec), TRUE).codec
          /\ queue' = << >>
          /\ prod' = ProdAtLoop(running)
          /\ send' = SendAtLoop(running)
          /\ recv' = RecvAtLoop(running)
          /\ mpc' = "wait"
          /\ sendFrame' = 0 /\ packets' = 0 /\ wire' = << >>
          /\ UNCHANGED << running, attempt, exitKind, conn >>
       \/ /\ conn = "open"
          /\ MayFail
          /\ codec' = InitDecoder(ResetCodec(codec), FALSE).codec
          /\ conn' = "closed"
          /\ Except
          /\ UNCHANGED << queue, prod, send, recv, sendFrame, packets, wire >>
       \/ /\ conn # "open"
          /\ conn' = "closed"
          /\ Except
          /\ UNCHANGED << codec, queue, prod, send, recv, sendFrame, packets, wire >>
    /\ UNCHANGED << exception_occurred, prodFrame, decJob, staleJob, nextFrame,
                    srcState, connect_calls, connOk, stopCalled, stopMid, graceDone,
                    cancelled, unitErr, outside >>

\* asyncio.wait(..., FIRST_COMPLETED) returns: the flag is cleared, the done
\* tasks are inspected and the pending ones cancelled
MainWake ==
    /\ mpc = "wait"
    /\ \E t \in {prod, send, recv} : t \in Done
    /\ CanCancelRecv
    /\ running' = FALSE
    /\ exception_occurred' = ExceptionOccurred(prod, send, recv)
    /\ prod' = CancelProducer(prod)
    /\ send' = CancelTask(send)
    /\ recv' = CancelTask(recv)
    /\ sendFrame' = 0 /\ packets' = 0
    /\ decJob' = "idle"
    /\ staleJob' = StaleAfterCancel(recv, decJob, staleJob)
    /\ mpc' = "grace"
    /\ UNCHANGED << attempt, exitKind, conn, queue, prodFrame, codec, nextFrame,
                    srcState, connect_calls, connOk, stopCalled, stopMid, graceDone,
                    cancelled, unitErr, outside, wire >>

\* asyncio.wait(pending, timeout=5.0) returns: every pending task has ended, or
\* the producer is still blocked in frame_queue.put(None) when the time is up.
\* Then "raise RuntimeError" or "return", which leave the async with block.
MainGraceEnd ==
    /\ mpc = "grace"
    /\ prod \in Done \/ (prod = "cancel_put" /\ Full(queue))
    /\ graceDone' = TRUE
    /\ conn' = "closed"
    /\ exception_occurred' = FALSE
    /\ IF exception_occurred
       THEN Except
       ELSE /\ exitKind' = "return" /\ mpc' = "finally"
            /\ UNCHANGED << running, attempt >>
    /\ UNCHANGED << prod, send, recv, queue, prodFrame, codec, decJob, staleJob,
                    nextFrame, srcState, connect_calls, connOk, stopCalled, stopMid,
                    cancelled, unitErr, outside, sendFrame, packets, wire >>

\* asyncio.sleep(self.reconnect_delay) returns
MainSleepDone ==
    /\ mpc = "sleep"
    /\ mpc' = "finally"
    /\ UNCHANGED << attempt, running, exitKind, exception_occurred, conn, prod, send,
                    recv, queue, prodFrame, codec, decJob, staleJob, nextFrame,
                    srcState, connect_calls, connOk, stopCalled, stopMid, graceDone,
                    cancelled, unitErr, outside, sendFrame, packets, wire >>

\* where the try statement leads once its finally clause is through
AfterFinally(k) ==
    CASE k = "loop" -> "loop"
      [] k = "return" -> "returned"
      [] k = "raise" -> "raised"
      [] OTHER -> "cancelled"

\* the finally clause from the sender on: the sender and the receiver are
\* cancelled and awaited, then the codecs are cleaned up
FinRest ==
    /\ CanCancelRecv
    /\ send' = CancelTask(send)
    /\ recv' = CancelTask(recv)
    /\ sendFrame' = 0 /\ packets' = 0
    /\ decJob' = "idle"
    /\ staleJob' = StaleAfterCancel(recv, decJob, staleJob)
    /\ codec' = ResetCodec(codec)
    /\ mpc' = AfterFinally(exitKind)

\* the finally clause up to the await of the producer
MainFinally ==
    /\ mpc = "finally"
    /\ running' = FALSE
    /\ prod' = CancelProducer(prod)
    /\ IF CancelProducer(prod) = "cancel_put"
       THEN /\ mpc' = "fin_await"
            /\ UNCHANGED << send, recv, decJob, staleJob, codec, sendFrame, packets >>
       ELSE FinRest
    /\ UNCHANGED << attempt, exitKind, exception_occurred, conn, queue, prodFrame,
                    nextFrame, srcState, connect_calls, connOk, stopCalled, stopMid,
                    graceDone, cancelled, unitErr, outside, wire >>

\* "await task" of the producer returns
MainFinAwait ==
    /\ mpc = "fin_await"
    /\ prod \in Done
    /\ FinRest
    /\ UNCHANGED << attempt, running, exitKind, exception_occurred, conn, prod, queue,
                    prodFrame, nextFrame, srcState, connect_calls, connOk, stopCalled,
                    stopMid, graceDone, cancelled, unitErr, outside, wire >>

(* ---------------------------- _frame_producer --------------------------- *)
\* run_in_executor(get_next_frame) returns: a frame, None at StopIteration, or
\* the generator raises ("Error getting frame", break)
ProdNext ==
    /\ prod = "next"
    /\ \/ /\ srcState = "live" /\ nextFrame < MaxFrames
          /\ nextFrame' = nextFrame + 1
          /\ prodFrame' = nextFrame + 1
          /\ prod' = "put"
          /\ UNCHANGED << srcState, unitErr >>
       \/ /\ prod' = "put_none"
          /\ srcState' = IF srcState = "live" THEN "exhausted" ELSE srcState
          /\ UNCHANGED << nextFrame, prodFrame, unitErr >>
       \/ /\ srcState = "live"
          /\ MayFail
          /\ srcState' = "raised"
          /\ unitErr' = unitErr \cup {"source"}
          /\ prod' = "put_none"
          /\ UNCHANGED << nextFrame, prodFrame >>
    /\ UNCHANGED << attempt, running, mpc, exitKind, exception_occurred, conn, send,
                    recv, queue, codec, decJob, staleJob, connect_calls, connOk,
                    stopCalled, stopMid, graceDone, cancelled, outside, sendFrame, packets, wire >>

\* wait_for(frame_queue.put(frame), timeout=1.0) with room in the queue, then
\* asyncio.sleep(0) and the loop condition
ProdPut ==
    /\ prod = "put"
    /\ ~Full(queue)
    /\ queue' = Append(queue, prodFrame)
    /\ prodFrame' = 0
    /\ prod' = ProdAtLoop(running)
    /\ UNCHANGED << attempt, running, mpc, exitKind, exception_occurred, conn, send,
                    recv, codec, decJob, staleJob, nextFrame, srcState, connect_calls,
                    connOk, stopCalled, stopMid, graceDone, cancelled, unitErr,
                    outside, sendFrame, packets, wire >>

\* a full queue that makes room for x by giving up its oldest element
EvictOldest(q, x) == Append(Tail(q), x)

\* what the queue holds after a put of x that found it full for the whole
\* timeout: "Queue is full, drop frame"
QueueAfterTimeout(q, x) == q

\* the put times out: "Queue full, dropping frame", continue
ProdPutTimeout ==
    /\ prod = "put"
    /\ Full(queue)
    /\ queue' = QueueAfterTimeout(queue, prodFrame)
    /\ prodFrame' = 0
    /\ prod' = ProdAtLoop(running)
    /\ UNCHANGED << attempt, running, mpc, exitKind, exception_occurred, conn, send,
                    recv, codec, decJob, staleJob, nextFrame, srcState, connect_calls,
                    connOk, stopCalled, stopMid, graceDone, cancelled, unitErr,
                    outside, sendFrame, packets, wire >>

\* a producer that ends without putting the stop signal
QueueWithoutStop(q) == q

\* what the queue holds after frame_queue.put(None)
QueueAfterStop(q) == Append(q, 0)

\* "Send stop signal": await frame_queue.put(None), after the loop or in the
\* handler of CancelledError; it waits while the queue is full
ProdPutNone ==
    /\ prod \in {"put_none", "cancel_put"}
    /\ ~Full(queue)
    /\ queue' = QueueAfterStop(queue)
    /\ prod' = IF prod = "put_none" THEN "done_ok" ELSE "done_cancelled"
    /\ UNCHANGED << attempt, running, mpc, exitKind, exception_occurred, conn, send,
                    recv, prodFrame, codec, decJob, staleJob, nextFrame, srcState,
                    connect_calls, connOk, stopCalled, stopMid, graceDone, cancelled,
                    unitErr, outside, sendFrame, packets, wire >>

(* ------------------------------ _send_task ------------------------------ *)
\* wait_for(frame_queue.get(), timeout=1.0) returns an element: the stop signal
\* ends the task; a frame initializes the encoder if needed and is handed to
\* encode_work
SendGet ==
    /\ send = "get"
    /\ queue # << >>
    /\ queue' = Tail(queue)
    /\ IF Head(queue) = 0
       THEN /\ send' = "done_ok"
            /\ UNCHANGED << codec, unitErr, sendFrame >>
       ELSE IF codec.encoder_initialized
       THEN /\ send' = "encode"
            /\ sendFrame' = Head(queue)
            /\ UNCHANGED << codec, unitErr >>
       ELSE \E how \in EncoderHows :
              /\ how # "ok" => MayFail
              /\ codec' = InitEncoder(codec, how).codec
              /\ send' = IF how = "ok" THEN "encode" ELSE "done_exc"
              /\ sendFrame' = IF how = "ok" THEN Head(queue) ELSE 0
              /\ unitErr' = IF how = "ok" THEN unitErr ELSE unitErr \cup {"encoder"}
    /\ UNCHANGED << attempt, running, mpc, exitKind, exception_occurred, conn, prod,
                    recv, prodFrame, decJob, staleJob, nextFrame, srcState,
                    connect_calls, connOk, stopCalled, stopMid, graceDone, cancelled,
                    outside, packets, wire >>

\* the get times out on an empty queue: continue
SendGetTimeout ==
    /\ send = "get"
    /\ queue = << >>
    /\ send' = SendAtLoop(running)
    /\ UNCHANGED << attempt, running, mpc, exitKind, exception_occurred, conn, prod,
                    recv, queue, prodFrame, codec, decJob, staleJob, nextFrame,
                    srcState, connect_calls, connOk, stopCalled, stopMid, graceDone,
                    cancelled, unitErr, outside, sendFrame, packets, wire >>

\* run_in_executor(encode_work) returns the packets: they are sent, or there
\* are none and the loop goes on
SendEncoded ==
    /\ send = "encode"
    /\ \E n \in 0..MaxPackets :
         /\ packets' = EncodeFrame(codec, n)
         /\ sendFrame' = IF EncodeFrame(codec, n) > 0 THEN sendFrame ELSE 0
         /\ send' = IF EncodeFrame(codec, n) > 0 THEN "send" ELSE SendAtLoop(running)
    /\ UNCHANGED << attempt, running, mpc, exitKind, exception_occurred, conn, prod,
                    recv, queue, prodFrame, codec, decJob, staleJob, nextFrame,
                    srcState, connect_calls, connOk, stopCalled, stopMid, graceDone,
                    cancelled, unitErr, outside, wire >>

\* sends that reach the connection last packet first
WrittenReversed(fr, n) == [ i \in 1..n |-> << fr, n + 1 - i >> ]

\* what asyncio.gather(*send_coros) writes for the n packets of frame fr: the
\* ws.send coroutines are started in the order of the list, and each writes
\* its message before it first suspends
Written(fr, n) == [ i \in 1..n |-> << fr, i >> ]

\* asyncio.gather of the ws.send calls returns, or raises on a connection that
\* is not open
SendSent ==
    /\ send = "send"
    /\ sendFrame' = 0 /\ packets' = 0
    /\ IF conn = "open"
       THEN /\ send' = SendAtLoop(running)
            /\ wire' = IF probe THEN wire \o Written(sendFrame, packets) ELSE wire
            /\ UNCHANGED unitErr
       ELSE /\ send' = "done_exc"
            /\ unitErr' = IF conn = "dropped" THEN unitErr \cup {"send_drop"}
                          ELSE unitErr
            /\ UNCHANGED wire
    /\ UNCHANGED << attempt, running, mpc, exitKind, exception_occurred, conn, prod,
                    recv, queue, prodFrame, codec, decJob, staleJob, nextFrame,
                    srcState, connect_calls, connOk, stopCalled, stopMid, graceDone,
                    cancelled, outside >>

(* ------------------------------ _recv_task ------------------------------ *)
\* wait_for(ws.recv(), timeout=1.0) on an open connection: it times out, or a
\* text message arrives (logged), or a binary one, which is handed to
\* decode_work; decode_frame returns at once or enters self.decoder.decode
RecvMessage ==
    /\ recv = "recv"
    /\ conn = "open"
    /\ \/ /\ recv' = RecvAtLoop(running)
          /\ UNCHANGED << codec, decJob >>
       \/ \E len \in 0..MaxPacketLen :
            LET pre == DecodePre(codec, len)
            IN /\ pre.codec.consecutive_decode_errors <= MaxErrors
               /\ codec' = pre.codec
               /\ IF pre.ret
                  THEN recv' = RecvAtLoop(running) /\ UNCHANGED decJob
                  ELSE recv' = "decode" /\ decJob' = "in_call"
    /\ UNCHANGED << attempt, running, mpc, exitKind, exception_occurred, conn, prod,
                    send, queue, prodFrame, staleJob, nextFrame, srcState,
                    connect_calls, connOk, stopCalled, stopMid, graceDone, cancelled,
                    unitErr, outside, sendFrame, packets, wire >>

\* ws.recv() raises ConnectionClosed: "WebSocket connection closed", and the
\* task returns
RecvClosed ==
    /\ recv = "recv"
    /\ conn # "open"
    /\ recv' = "done_ok"
    /\ unitErr' = IF conn = "dropped" THEN unitErr \cup {"recv_drop"} ELSE unitErr
    /\ UNCHANGED << attempt, running, mpc, exitKind, exception_occurred, conn, prod,
                    send, queue, prodFrame, codec, decJob, staleJob, nextFrame,
                    srcState, connect_calls, connOk, stopCalled, stopMid, graceDone,
                    cancelled, outside, sendFrame, packets, wire >>

\* run_in_executor(decode_work) returns; the callbacks are handed to the pool,
\* then asyncio.sleep(0) and the loop condition
RecvDecoded ==
    /\ recv = "decode"
    /\ decJob = "finished"
    /\ decJob' = "idle"
    /\ recv' = RecvAtLoop(running)
    /\ UNCHANGED << attempt, running, mpc, exitKind, exception_occurred, conn, prod,
                    send, queue, prodFrame, codec, staleJob, nextFrame, srcState,
                    connect_calls, connOk, stopCalled, stopMid, graceDone, cancelled,
                    unitErr, outside, sendFrame, packets, wire >>

(* ------------------- decode_work in a worker thread --------------------- *)
\* the outcomes of self.decoder.decode(packet) and of what follows it, for a
\* thread that entered the call when the processor held a decoder
ThreadDecode(c) ==
    { DecodePost(c, out, n, reinit).codec :
        out \in {o \in DecodeOutcomes : o = "attrerror" => c.decoder = "absent"},
        n \in {m \in 0..1 : c.frame_count + m <= MaxFrameCount},
        reinit \in {r \in BOOLEAN : ~r => MayFail} }

\* the worker thread returns from self.decoder.decode and finishes decode_frame
DecodeEnd ==
    /\ decJob = "in_call"
    /\ codec' \in ThreadDecode(codec)
    /\ codec'.consecutive_decode_errors <= MaxErrors
    /\ decJob' = "finished"
    /\ UNCHANGED << attempt, running, mpc, exitKind, exception_occurred, conn, prod,
                    send, recv, queue, prodFrame, staleJob, nextFrame, srcState,
                    connect_calls, connOk, stopCalled, stopMid, graceDone, cancelled,
                    unitErr, outside, sendFrame, packets, wire >>

\* the same for a decode_work whose receiver was cancelled: its result is
\* dropped, what it does to the processor is not
StaleEnd ==
    /\ staleJob = "in_call"
    /\ codec' \in ThreadDecode(codec)
    /\ codec'.consecutive_decode_errors <= MaxErrors
    /\ staleJob' = "none"
    /\ UNCHANGED << attempt, running, mpc, exitKind, exception_occurred, conn, prod,
                    send, recv, queue, prodFrame, decJob, nextFrame, srcState,
                    connect_calls, connOk, stopCalled, stopMid, graceDone, cancelled,
                    unitErr, outside, sendFrame, packets, wire >>

(* ---------------------------- environment ------------------------------- *)
\* stop(), from another thread, while _run_async is inside an attempt or in
\* the reconnect delay
Stop ==
    /\ mpc \notin Exited \cup {"loop"}
    /\ running' = FALSE
    /\ stopCalled' = TRUE
    /\ stopMid' = (stopMid \/ (mpc = "wait" /\ {prod, send, recv} \cap Done = {}))
    /\ UNCHANGED << attempt, mpc, exitKind, exception_occurred, conn, prod, send,
                    recv, queue, prodFrame, codec, decJob, staleJob, nextFrame,
                    srcState, connect_calls, connOk, graceDone, cancelled, unitErr,
                    outside, sendFrame, packets, wire >>

\* the peer closes the connection, or it is reset
Drop ==
    /\ conn = "open"
    /\ MayFail
    /\ conn' = "dropped"
    /\ UNCHANGED << attempt, running, mpc, exitKind, exception_occurred, prod, send,
                    recv, queue, prodFrame, codec, decJob, staleJob, nextFrame,
                    srcState, connect_calls, connOk, stopCalled, stopMid, graceDone,
                    cancelled, unitErr, outside, sendFrame, packets, wire >>

\* the task running _run_async is cancelled while it awaits: CancelledError
\* leaves the async with block and reaches "except asyncio.CancelledError"
CancelMain ==
    /\ ~cancelled
    /\ mpc \in {"connect", "handshake", "wait", "grace", "sleep"}
    /\ cancelled' = TRUE
    /\ conn' = "closed"
    /\ running' = FALSE
    /\ exitKind' = "cancel"
    /\ mpc' = "finally"
    /\ UNCHANGED << attempt, exception_occurred, prod, send, recv, queue, prodFrame,
                    codec, decJob, staleJob, nextFrame, srcState, connect_calls,
                    connOk, stopCalled, stopMid, graceDone, unitErr, outside, sendFrame, packets, wire >>

(* --------------------------- specification ------------------------------ *)
\* no run of corrupt units is being followed
NoRun == [ corrupt |-> -1, reinits |-> 0 ]

IdleCall == [ op |-> "none", afterCleanup |-> FALSE, len |-> 0, errorsBefore |-> 0,
              decoderBefore |-> "absent", encoderReady |-> FALSE, accepted |-> FALSE,
              count |-> 0, raised |-> FALSE ]

RtcInit == recv_frames = << >> /\ received = 0 /\ reads = 0 /\ track = "live"

SinkInit ==
    /\ rpc = "none" /\ decoded_frames = << >> /\ decoded = 0
    /\ f = 0 /\ frame_count = 0
    /\ jobs = << >> /\ holding = {} /\ delivered = << >>

\* the client, the processor and the WebRTC queue after construction; p says
\* whether the packets written will be recorded
InitWith(p) ==
    /\ max_retries \in -1..MaxRetries
    /\ attempt = 0
    /\ running = FALSE
    /\ mpc = "loop"
    /\ exitKind = "loop"
    /\ exception_occurred = FALSE
    /\ conn = "closed"
    /\ prod = "none" /\ send = "none" /\ recv = "none"
    /\ queue = << >>
    /\ prodFrame = 0
    /\ codec = NewProcessor
    /\ decJob = "idle" /\ staleJob = "none"
    /\ nextFrame = 0 /\ srcState = "live"
    /\ connect_calls = 0 /\ connOk = FALSE
    /\ stopCalled = FALSE /\ stopMid = FALSE /\ graceDone = FALSE
    /\ cancelled = FALSE
    /\ unitErr = {}
    /\ sendFrame = 0 /\ packets = 0 /\ wire = << >>
    /\ probe = p
    /\ SinkInit
    /\ call = IdleCall
    /\ session = NoRun
    /\ stamps = << >>
    /\ RtcInit

Init == InitWith(FALSE)

WireInit == InitWith(TRUE)

MainStep ==
    \/ MainLoop \/ MainConnectOk \/ MainConnectFail \/ MainHandshake
    \/ MainWake \/ MainGraceEnd \/ MainSleepDone \/ MainFinally \/ MainFinAwait

TaskStep ==
    \/ ProdNext \/ ProdPut \/ ProdPutTimeout \/ ProdPutNone
    \/ SendGet \/ SendGetTimeout \/ SendEncoded \/ SendSent
    \/ RecvMessage \/ RecvClosed \/ RecvDecoded

ThreadStep == DecodeEnd \/ StaleEnd

EnvStep == Stop \/ Drop \/ CancelMain

Next == MainStep \/ TaskStep \/ ThreadStep \/ EnvStep

Spec == Init /\ [][Next]_vars

\* the client with the packets it writes recorded
WireSpec == WireInit /\ [][Next]_vars

\* the event loop runs every coroutine that can go on, and a worker thread
\* that is inside decode_frame finishes it
FairSpec == Spec /\ WF_vars(MainStep) /\ WF_vars(TaskStep) /\ WF_vars(ThreadStep)

\* the steps of _send_task
SendStep == SendGet \/ SendGetTimeout \/ SendEncoded \/ SendSent

\* the event loop runs its ready callbacks in turn: a sender that can go on
\* is run, whatever the other tasks do
SendFairSpec == Spec /\ WF_vars(SendStep)

(* ================= H264VideoProcessor called directly =================== *)
\* what a call leaves in "call": the method, whether the call before it was cleanup,
\* the packet length, the error counter, the decoder and the readiness of the
\* encoder before the call, whether self.decoder.decode accepted the packet,
\* the frames or packets returned, whether it raised
CallRecord(op, len, c, n, raised) ==
    [ op |-> op, afterCleanup |-> (call.op = "cleanup"), len |-> len,
      errorsBefore |-> c.consecutive_decode_errors, decoderBefore |-> c.decoder,
      encoderReady |-> EncoderReady(c), accepted |-> FALSE,
      count |-> n, raised |-> raised ]

\* self.decoder.decode(packet) was reached and returned
Accepted(c, len, out) == ~DecodePre(c, len).ret /\ out = "ok"

\* a corrupt unit: a packet of 1 to 3 bytes, or a longer one the decoder
\* rejects with av.AVError
CorruptUnit(len, out) ==
    (len >= 1 /\ len < MinPacketSize) \/ (len >= MinPacketSize /\ out = "averror")

\* the run of corrupt units after a decode_frame call on processor c: it goes
\* on with a corrupt unit fed to a decoder that is present, up to
\* max_consecutive_errors units, and is over otherwise
AfterUnit(run, c, len, out, reinits) ==
    IF /\ run.corrupt >= 0 /\ run.corrupt < max_consecutive_errors
       /\ c.decoder # "absent" /\ CorruptUnit(len, out)
    THEN [ corrupt |-> run.corrupt + 1, reinits |-> run.reinits + reinits ]
    ELSE NoRun

CallInitDecoder ==
    \E ok \in BOOLEAN :
      LET r == InitDecoder(codec, ok)
      IN /\ codec' = r.codec
         /\ call' = CallRecord("init_decoder", 0, codec, 0, r.raised)
         /\ session' = IF ok THEN [ corrupt |-> 0, reinits |-> 0 ] ELSE NoRun
         /\ UNCHANGED << stamps, wsVars, rtcVars, sinkVars >>

CallInitEncoder ==
    \E how \in EncoderHows :
      LET r == InitEncoder(codec, how)
      IN /\ codec' = r.codec
         /\ call' = CallRecord("init_encoder", 0, codec, 0, r.raised)
         /\ stamps' = << >>
         /\ UNCHANGED session
         /\ UNCHANGED << wsVars, rtcVars, sinkVars >>

CallDecodeFrame ==
    \E len \in 0..MaxPacketLen, out \in DecodeOutcomes, n \in 0..1, reinit \in BOOLEAN :
      LET r == DecodeFrame(codec, len, out, n, reinit)
      IN /\ r.codec.consecutive_decode_errors <= MaxErrors
         /\ r.codec.frame_count <= MaxDecoded
         /\ codec' = r.codec
         /\ call' = [CallRecord("decode_frame", len, codec, r.frames, r.raised)
                        EXCEPT !.accepted = Accepted(codec, len, out)]
         /\ session' = AfterUnit(session, codec, len, out, r.reinits)
         /\ UNCHANGED << stamps, wsVars, rtcVars, sinkVars >>

\* av_frame.pts = self.frame_count
Pts(c) == c.frame_count

CallEncodeFrame ==
    \E n \in 0..1 :
      /\ (probe /\ EncoderReady(codec)) => Len(stamps) < MaxStamps
      /\ call' = CallRecord("encode_frame", 0, codec, EncodeFrame(codec, n), FALSE)
      /\ stamps' = IF probe /\ EncoderReady(codec)
                    THEN Append(stamps, Pts(codec)) ELSE stamps
      /\ UNCHANGED << codec, session, wsVars, rtcVars, sinkVars >>

CallFlushEncoder ==
    \E n \in 0..1 :
      /\ call' = CallRecord("flush_encoder", 0, codec, FlushEncoder(codec, n), FALSE)
      /\ UNCHANGED << codec, session, stamps, wsVars, rtcVars, sinkVars >>

CallCleanupDecoder ==
    /\ codec' = CleanupDecoder(codec)
    /\ call' = CallRecord("cleanup_decoder", 0, codec, 0, FALSE)
    /\ session' = NoRun
    /\ UNCHANGED << stamps, wsVars, rtcVars, sinkVars >>

CallCleanupEncoder ==
    /\ codec' = CleanupEncoder(codec)
    /\ call' = CallRecord("cleanup_encoder", 0, codec, 0, FALSE)
    /\ stamps' = << >>
    /\ UNCHANGED session
    /\ UNCHANGED << wsVars, rtcVars, sinkVars >>

CallCleanup ==
    /\ codec' = Cleanup(codec)
    /\ call' = CallRecord("cleanup", 0, codec, 0, FALSE)
    /\ session' = NoRun
    /\ stamps' = << >>
    /\ UNCHANGED << wsVars, rtcVars, sinkVars >>

CodecNext ==
    \/ CallInitDecoder \/ CallInitEncoder \/ CallDecodeFrame \/ CallEncodeFrame
    \/ CallFlushEncoder \/ CallCleanupDecoder \/ CallCleanupEncoder \/ CallCleanup

CodecSpec == Init /\ [][CodecNext]_vars

\* the processor called method by method, with the timestamps recorded
StampSpec == WireInit /\ [][CodecNext]_vars

(* ============ _recv_task: decoded frames and the frame callback ========= *)
\* what a step of the receiver or of a worker thread leaves alone
sinkOutside == << wsVars, codec, call, session, stamps, rtcVars >>

\* the receiver task of an attempt starts: frame_count = 0
SinkStart ==
    /\ rpc = "none"
    /\ rpc' = "recv"
    /\ frame_count' = 0
    /\ UNCHANGED << decoded_frames, decoded, f, jobs, holding, delivered, sinkOutside >>

\* a binary message arrives and run_in_executor(decode_work) returns n frames
SinkDecoded ==
    /\ rpc = "recv"
    /\ \E n \in 0..MaxBatch :
         /\ decoded + n <= MaxSinkFrames
         /\ decoded_frames' = [ i \in 1..n |-> decoded + i ]
         /\ decoded' = decoded + n
         /\ rpc' = IF n = 0 THEN "recv" ELSE "bind"
    /\ UNCHANGED << f, frame_count, jobs, holding, delivered, sinkOutside >>

\* "for f in decoded_frames": f is bound to the next frame and callback_work,
\* which reads f and frame_count when it runs, is handed to the pool
SinkSubmit ==
    /\ rpc = "bind"
    /\ f' = Head(decoded_frames)
    /\ decoded_frames' = Tail(decoded_frames)
    /\ jobs' = Append(jobs, Head(decoded_frames))
    /\ rpc' = "count"
    /\ UNCHANGED << decoded, frame_count, holding, delivered, sinkOutside >>

\* frame_count += 1, then the next frame of the list or, after
\* asyncio.sleep(0), the next message
SinkCount ==
    /\ rpc = "count"
    /\ frame_count' = frame_count + 1
    /\ rpc' = IF decoded_frames = << >> THEN "recv" ELSE "bind"
    /\ UNCHANGED << decoded_frames, decoded, f, jobs, holding, delivered, sinkOutside >>

\* a worker thread of the pool takes the oldest callback_work and evaluates
\* the arguments of frame_callback(f, frame_count)
CallbackArgs ==
    /\ jobs # << >>
    /\ Cardinality(holding) < num_workers
    /\ jobs' = Tail(jobs)
    /\ holding' = holding \cup { << Head(jobs), f, frame_count >> }
    /\ UNCHANGED << rpc, decoded_frames, decoded, f, frame_count, delivered, sinkOutside >>

\* a worker thread enters frame_callback with the arguments it evaluated
CallbackInvoke ==
    /\ \E h \in holding :
         /\ holding' = holding \ {h}
         /\ delivered' = Append(delivered, << h[2], h[3] >>)
    /\ UNCHANGED << rpc, decoded_frames, decoded, f, frame_count, jobs, sinkOutside >>

SinkNext ==
    \/ SinkStart \/ SinkDecoded \/ SinkSubmit \/ SinkCount
    \/ CallbackArgs \/ CallbackInvoke

SinkSpec == Init /\ [][SinkNext]_vars

(* ============================ WebRTCClient ============================== *)
\* asyncio.Queue.put_nowait on a queue of maxsize 10: QueueFull when it is full
PutNowait(q, x) ==
    IF Len(q) >= RecvCapacity
    THEN [ queue |-> q, raised |-> TRUE ]
    ELSE [ queue |-> Append(q, x), raised |-> FALSE ]

\* an on_track that puts without making room
OnTrackPutNoRoom(q, x) == PutNowait(q, x)

\* "Put frame in queue (non-blocking)": if full() then get_nowait(), then
\* put_nowait(img)
OnTrackPut(q, x) ==
    PutNowait(IF Len(q) >= RecvCapacity THEN Tail(q) ELSE q, x)

\* on_track: track.recv() returns a frame, which is queued, or raises, which
\* ends the loop; so does a put_nowait that raises
OnTrackFrame ==
    /\ track = "live"
    /\ \/ /\ received < MaxRecv
          /\ LET r == OnTrackPut(recv_frames, received + 1)
             IN /\ recv_frames' = r.queue
                /\ track' = IF r.raised THEN "queue_error" ELSE "live"
          /\ received' = received + 1
       \/ /\ track' = "recv_error"
          /\ UNCHANGED << recv_frames, received >>
    /\ UNCHANGED << reads, wsVars, codec, call, session, stamps, sinkVars >>

\* display_loop: wait_for(self.recv_frames.get(), timeout=1.0) returns the
\* oldest frame, or times out on an empty queue
DisplayGet ==
    /\ \/ /\ recv_frames # << >>
          /\ recv_frames' = Tail(recv_frames)
          /\ reads' = reads + 1
       \/ /\ recv_frames = << >>
          /\ UNCHANGED << recv_frames, reads >>
    /\ UNCHANGED << received, track, wsVars, codec, call, session, stamps, sinkVars >>

QueueNext == OnTrackFrame \/ DisplayGet

QueueSpec == Init /\ [][QueueNext]_vars

(* ------------------------------ claims ---------------------------------- *)
\* C2: with max_retries = -1 _run_async never ends by raising the permanent
\* failure, and after every failed attempt (it is then in the reconnect delay)
\* another connection attempt follows unless the task is cancelled.
C2_UnlimitedRetries ==
    /\ [](max_retries = -1 => mpc # "raised")
    /\ ((max_retries = -1 /\ mpc = "sleep") ~> (mpc \in {"connect", "cancelled"}))

\* a second attempt that follows a failed one under the unlimited setting
C2_RetriedAfterFailure == max_retries = -1 /\ attempt >= 1 /\ mpc = "connect"

\* C1: with max_retries = R >= 0 and a connection that fails at every attempt,
\* a call of _run_async that has ended (and was not cancelled) has called
\* websockets.connect exactly R times and has ended by raising.
C1_ReconnectBound ==
    (mpc \in Exited /\ max_retries >= 0 /\ ~connOk /\ ~cancelled)
        => (connect_calls = max_retries /\ mpc = "raised")

\* C3: an attempt whose connection was dropped by the peer, whether ws.send or
\* ws.recv found it out, never ends _run_async as a clean completion.
C3_DropIsFailure ==
    mpc = "returned" => unitErr \cap {"send_drop", "recv_drop"} = {}

\* C4: an attempt in which the producer, the sender or the receiver task ended
\* with an exception is never left by the clean "return": _run_async returns
\* normally only when none of the three tasks raised.
C4_UnitErrorFailsAttempt ==
    (exitKind = "return" /\ mpc \in {"finally", "fin_await", "returned"})
        => "done_exc" \notin {prod, send, recv}

\* a task raised and the attempt went to the reconnect delay
C4_FailedAttempt == mpc = "sleep" /\ "done_exc" \in {prod, send, recv}

\* C5: once control has left _run_async, on whatever path, the connection is
\* closed and the processor holds no decoder and no encoder, with
\* encoder_initialized false.
C5_CleanupOnExit ==
    mpc \in Exited
        => /\ conn = "closed"
           /\ codec.decoder = "absent"
           /\ codec.encoder = "absent"
           /\ ~codec.encoder_initialized

\* C6: when stop() was called while the three tasks were running, none of them
\* is still running once the wait for the cancelled tasks is over.
C6_StoppedWithinGrace ==
    (stopMid /\ graceDone) => {prod, send, recv} \subseteq Done

\* C7: once stop() has been called no further connection attempt is started.
C7_NoAttemptAfterStop ==
    [][stopCalled => connect_calls' = connect_calls]_vars

\* C8 as stated: the producer's put on a full queue completes by evicting the
\* oldest queued frame and enqueuing the new one.
C8_EvictsOldest ==
    [][(prod = "put" /\ Full(queue) /\ prod' \in {"next", "put_none"})
          => queue' = Append(Tail(queue), prodFrame)]_vars

\* C8, amended: the producer's put on a full queue waits for room; when it
\* gives up (the one second timeout) or is cancelled, the queue is left as it
\* was, so the new frame is the one that is lost and no queued frame is evicted.
C8_DropsNewFrame ==
    [][(prod = "put" /\ Full(queue) /\ prod' # prod) => queue' = queue]_vars

\* frame 2 was taken from the source and is neither held nor queued, while
\* frame 1 is still in the queue: the put of frame 2 timed out
C8_NewFrameDropped ==
    /\ queue = << 1 >> /\ nextFrame = 2 /\ prodFrame = 0
    /\ prod \in {"next", "put_none"}

\* the frames numbered a..b in order
Range(a, b) == [ i \in 1..(b - a + 1) |-> a + i - 1 ]

\* C9: recv_frames never holds more than its capacity of 10 frames, on_track's
\* enqueuing never fails, and while display_loop has read nothing the queue
\* holds the frames received, or after capacity + k frames exactly the 10 most
\* recent ones in arrival order.
C9_RecvFramesBound ==
    /\ Len(recv_frames) <= RecvCapacity
    /\ track # "queue_error"
    /\ reads = 0 =>
         recv_frames = IF received <= RecvCapacity
                       THEN Range(1, received)
                       ELSE Range(received - RecvCapacity + 1, received)

\* more frames than the capacity were received and none was read
C9_Overflowed == received >= RecvCapacity + 2 /\ reads = 0 /\ track = "live"

\* C10 as stated: decode_frame with a decoder present and a packet shorter
\* than 4 bytes, the empty one included, returns an empty list, does not raise
\* and increments consecutive_decode_errors by exactly one.
C10_ShortPacketCounted ==
    (call.op = "decode_frame" /\ call.len < MinPacketSize
        /\ call.decoderBefore # "absent")
        => /\ call.count = 0 /\ ~call.raised
           /\ codec.consecutive_decode_errors = call.errorsBefore + 1

\* C10, amended: decode_frame with a decoder present returns an empty list and
\* does not raise for every packet shorter than 4 bytes; it increments
\* consecutive_decode_errors by exactly one for lengths 1, 2 and 3 and leaves
\* the counter as it was for the empty packet.
C10_ShortPacket ==
    (call.op = "decode_frame" /\ call.len < MinPacketSize
        /\ call.decoderBefore # "absent")
        => /\ call.count = 0 /\ ~call.raised
           /\ codec.consecutive_decode_errors =
                call.errorsBefore + (IF call.len = 0 THEN 0 ELSE 1)
           /\ codec.decoder = call.decoderBefore

\* a three byte packet was counted on a processor with errors already counted
C10_ShortPacketSeen ==
    /\ call.op = "decode_frame" /\ call.len = 3 /\ call.decoderBefore # "absent"
    /\ call.errorsBefore >= 1 /\ codec.consecutive_decode_errors = call.errorsBefore + 1

\* C11: after exactly max_consecutive_errors consecutive corrupt units (too
\* small or rejected by the decoder, in any mix) were fed to a freshly
\* initialized decoder, and the decoder is held, init_decoder was called
\* exactly once by decode_frame and consecutive_decode_errors is 0.
C11_AutoRecovery ==
    (session.corrupt = max_consecutive_errors /\ codec.decoder # "absent")
        => (session.reinits = 1 /\ codec.consecutive_decode_errors = 0)

\* C12: no decode_frame call lets an exception out, whatever the packet and
\* the state of the processor; it returns a list of zero or more frames.
C12_DecodeNeverRaises ==
    call.op = "decode_frame" => (~call.raised /\ call.count \in 0..1)

\* the reinitialization at the threshold failed inside decode_frame: the
\* decoder was present before the call and is gone after it
C12_ReinitFailed ==
    /\ call.op = "decode_frame" /\ call.decoderBefore # "absent"
    /\ call.errorsBefore = max_consecutive_errors - 1
    /\ codec.decoder = "absent"

\* packet a = << frame, index >> comes before packet b
Before(a, b) == a[1] < b[1] \/ (a[1] = b[1] /\ a[2] < b[2])

C14_ReceiveOrder ==
    \A i, j \in 1..Len(delivered) :
        i < j => (delivered[i][1] <= delivered[j][1] /\ delivered[i][2] <= delivered[j][2])

\* C15: every frame decode_frame returned is passed to the callback exactly
\* once with its own sequence number (the k-th frame with k - 1): no
\* invocation pairs a frame with another number, no frame is passed twice,
\* and once the pool is idle every frame has been passed.
C15_SinkDelivery ==
    /\ \A i \in 1..Len(delivered) : delivered[i][2] = delivered[i][1] - 1
    /\ \A i, j \in 1..Len(delivered) : i # j => delivered[i][1] # delivered[j][1]
    /\ (rpc = "recv" /\ jobs = << >> /\ holding = {})
          => { delivered[i][1] : i \in 1..Len(delivered) } = 1..decoded

\* C16: a decoder or encoder initialization that failed ends the attempt; the
\* attempt never goes on receiving with a processor that holds no decoder.
C16_InitFailureEndsAttempt ==
    (mpc = "wait" /\ recv = "recv") => codec.decoder # "absent"

\* C17: encode_frame called while the encoder is absent or not initialized
\* has an outcome other than that of an encode that produced no packet (an
\* empty list, nothing raised).
C17_EncoderNotReady ==
    (call.op = "encode_frame" /\ ~call.encoderReady)
        => (call.raised \/ call.count # 0)

\* C18: cleanup never raises and leaves no decoder, no encoder,
\* encoder_initialized false and frame_count 0, whatever the state it is
\* called in; a cleanup right after a cleanup changes nothing.
C18_CleanupIdempotent ==
    [][ call'.op = "cleanup" =>
          /\ ~call'.raised
          /\ codec'.decoder = "absent" /\ codec'.encoder = "absent"
          /\ ~codec'.encoder_initialized /\ codec'.frame_count = 0
          /\ (call.op = "cleanup" => codec' = codec) ]_vars

\* cleanup has been called right after another cleanup
C18_CleanupTwice == call.op = "cleanup" /\ call.afterCleanup

\* C19: encoder_initialized is true only if the encoder is present.
C19_InitializedHasEncoder == codec.encoder_initialized => codec.encoder # "absent"

\* init_encoder has failed on a processor whose encoder was ready
C19_InitFailedOnReady == call.op = "init_encoder" /\ call.raised /\ call.encoderReady

\* C20: consecutive_decode_errors is 0 after every decode_frame call in which
\* the decoder accepted the packet.
C20_AcceptedResetsErrors ==
    (call.op = "decode_frame" /\ call.accepted) => codec.consecutive_decode_errors = 0

\* the decoder accepted a packet after errors and no frame came out
C20_AcceptedNoFrame ==
    /\ call.op = "decode_frame" /\ call.accepted
    /\ call.errorsBefore > 0 /\ call.count = 0

\* C21: a new attempt calls websockets.connect only when the connection of
\* the attempt before it is closed and its producer, sender and receiver have
\* all terminated.
C21_OneConnection ==
    [][ (mpc = "loop" /\ mpc' = "connect")
          => (conn = "closed" /\ {prod, send, recv} \subseteq Done \cup {"none"}) ]_vars

\* the second connection of a start() is open, after an attempt whose
\* producer has run
C21_SecondConnection ==
    mpc = "handshake" /\ conn = "open" /\ connect_calls = 2 /\ nextFrame > 0

\* C22: _run_async returns normally only after an attempt that connected and
\* completed cleanly, the frame source being exhausted or stop() having been
\* called, with no error of the frame source and no close by the peer in it.
C22_ReturnsOnlyWhenClean ==
    mpc = "returned" =>
        /\ connOk
        /\ srcState = "exhausted" \/ stopCalled
        /\ unitErr = {}

\* C23: the processor is used by one task at a time: encode_work and
\* decode_work are never in the worker pool together, and the codec reset at
\* the start of an attempt and the cleanup at its end do not run while a
\* decode_work is still inside decode_frame.
C23_OneTaskAtATime ==
    /\ ~(send = "encode" /\ decJob = "in_call")
    /\ (mpc \in {"loop", "connect", "handshake"} \cup Exited) => staleJob # "in_call"

\* C24: once the producer has terminated, a sender that waits on the queue
\* finds the stop signal in it or the running flag cleared, and the sender
\* terminates.
C24_SenderNotStuck ==
    /\ [](( prod \in Done /\ send = "get" )
            => ( ~running \/ \E i \in 1..Len(queue) : queue[i] = 0 ))
    /\ ( prod \in Done /\ send \notin Done \cup {"none"} ) ~> ( send \in Done \cup {"none"} )

\* the producer has ended at the exhaustion of the frame source and the
\* sender, which was waiting on the queue, has taken the stop signal
C24_SenderGotStopSignal ==
    /\ prod = "done_ok" /\ srcState = "exhausted" /\ send = "done_ok"
    /\ running /\ queue = << >> /\ nextFrame = MaxFrames

\* C25: once the running flag is cleared no unit is left in a wait that only
\* a cancellation can end: the producer is never waiting to put the stop
\* signal into a full queue whose sender has terminated.
C25_EveryWaitBounded ==
    ~( ~running /\ prod = "put_none" /\ Full(queue) /\ send \in Done )

C27_ReleasedBeforeDelay ==
    mpc = "sleep" =>
        /\ conn = "closed"
        /\ {prod, send, recv} \subseteq Done \cup {"none"}
        /\ codec.decoder = "absent" /\ codec.encoder = "absent"

\* C28: the presentation timestamps that successive encode_frame calls give
\* to the frames of one encoder are strictly increasing.
C28_PtsIncreasing ==
    \A i, j \in 1..Len(stamps) : i < j => stamps[i] < stamps[j]

\* C29: the attempt counter never decreases; a step changes it only by adding
\* one, and it does so exactly when an attempt fails (the except clause is
\* entered, towards the reconnect delay or towards the final raise); with
\* max_retries >= 0 the connections opened in one start() are at most
\* max_retries.
C29_AttemptCounter ==
    /\ [][ /\ attempt' = attempt \/ attempt' = attempt + 1
           /\ (attempt' = attempt + 1)
                <=> /\ mpc' # mpc
                    /\ \/ mpc' = "sleep"
                       \/ (mpc' = "finally" /\ exitKind' = "raise") ]_vars
    /\ [](max_retries >= 0 => connect_calls <= max_retries)

\* the only attempt allowed connected and then failed, and the failure was
\* raised without another connection
C29_RetriesExhausted ==
    max_retries = 1 /\ attempt = 1 /\ connect_calls = 1 /\ connOk /\ mpc = "raised"

\* C30: when the attempt completes cleanly because the frame source is
\* exhausted, the step that stops the sender discards no frame: the sender
\* holds none and the queue holds none.
C30_NothingDiscarded ==
    [][ ( /\ mpc = "wait" /\ mpc' = "grace"
          /\ prod = "done_ok" /\ srcState = "exhausted"
          /\ ~ExceptionOccurred(prod, send, recv)
          /\ ~stopCalled /\ conn = "open" /\ unitErr = {} )
          => ( sendFrame = 0 /\ \A i \in 1..Len(queue) : queue[i] = 0 ) ]_vars

=============================================================================
